---- MODULE Spec2Model ----
(***************************************************************************)
(* Model of gvfs/gfileinfosimple.c: the collection of file metadata into   *)
(* a GFileInfo bag by g_file_info_simple_get (path based) and              *)
(* g_file_info_simple_get_from_fd (descriptor based), with the helpers     *)
(* read_link, get_selinux_context, escape_xattr, get_one_xattr and         *)
(* get_xattrs.  The operating system is the environment: every system call *)
(* is one step whose answer is drawn from what the kernel may answer in    *)
(* the current file state, and the file's extended attributes and link     *)
(* target may be changed by other processes between two calls.             *)
(***************************************************************************)
EXTENDS Integers, Sequences, FiniteSets, TLC

(* ------------------------------ bounds --------------------------------- *)
\* longest multi-byte value drawn for escape_xattr in isolation
MaxLen == 3
\* how many times other processes change the file during one call
MaxRaces == 2
MaxGrowth == 3

(* -------------------------- program constants -------------------------- *)
\* read_link: size = 256
ReadLinkInitialSize == 256
\* get_one_xattr: char value[64]
StackValueSize == 64

(* ------------------------------ characters ----------------------------- *)
Backslash == 92
LetterX == 120
Dot == 46
NUL == 0

Bytes == 0..255

Min(S) == CHOOSE x \in S : \A y \in S : x <= y

Rep(c, n) == [i \in 1..n |-> c]

(* ------------------------------ escape_xattr --------------------------- *)
\* value[i] read through a plain (signed) char
AsChar(b) == IF b >= 128 THEN b - 256 ELSE b

valid_charExclusive(c) == c > 32 /\ c < 126 /\ c # Backslash
valid_char(c) == c >= 32 /\ c <= 126 /\ c # Backslash

\* static char *hex_digits = "0123456789abcdef"
hex_digits == <<48, 49, 50, 51, 52, 53, 54, 55, 56, 57, 97, 98, 99, 100, 101, 102>>

\* the four writes through p for one invalid byte; c is the unsigned char,
\* promoted to int before the shift
EscapedCharShift4(c) ==
    <<Backslash, LetterX, hex_digits[((c \div 16) % 16) + 1], hex_digits[(c % 16) + 1]>>
EscapedChar(c) ==
    <<Backslash, LetterX, hex_digits[((c \div 256) % 16) + 1], hex_digits[(c % 16) + 1]>>

\* first loop: num_invalid over value[0 .. n-1]
RECURSIVE CountInvalid(_, _)
CountInvalid(value, n) ==
    IF n = 0 THEN 0
    ELSE CountInvalid(value, n - 1)
         + (IF valid_char(AsChar(value[n])) THEN 0 ELSE 1)

\* second loop: the bytes written through p for value[0 .. n-1]
RECURSIVE WriteEscaped(_, _)
WriteEscaped(value, n) ==
    IF n = 0 THEN <<>>
    ELSE WriteEscaped(value, n - 1)
         \o (IF valid_char(AsChar(value[n])) THEN <<value[n]>> ELSE EscapedChar(value[n]))

\* a C string read from a buffer: the bytes before the first NUL
CStr(buf) ==
    LET z == {i \in 1..Len(buf) : buf[i] = NUL}
    IN  IF z = {} THEN buf ELSE SubSeq(buf, 1, Min(z) - 1)

\* g_file_info_set_attribute: keys of the bag are unique
SetAttribute(xs, key, val) ==
    {e \in xs : e.attr # key} \cup {[attr |-> key, value |-> val]}

\* what one call of escape_xattr does: the branch taken, the size handed to
\* g_malloc, the bytes written through p, and the string stored in the bag
EscapeRunAllocTooSmall(value, n) ==
    LET num_invalid == CountInvalid(value, n)
    IN  IF num_invalid = 0
        THEN [branch |-> "verbatim", alloc |-> 0, written |-> <<>>,
              stored |-> CStr(value)]
        ELSE LET escaped_val == WriteEscaped(value, n) \o <<NUL>>
             IN  [branch |-> "escaped", alloc |-> n + num_invalid + 1,
                  written |-> escaped_val, stored |-> CStr(escaped_val)]
EscapeRun(value, n) ==
    LET num_invalid == CountInvalid(value, n)
    IN  IF num_invalid = 0
        THEN [branch |-> "verbatim", alloc |-> 0, written |-> <<>>,
              stored |-> CStr(value)]
        ELSE LET escaped_val == WriteEscaped(value, n) \o <<NUL>>
             IN  [branch |-> "escaped", alloc |-> n + num_invalid * 3 + 1,
                  written |-> escaped_val, stored |-> CStr(escaped_val)]

\* escape_xattr (info, attr, value, len): the bag afterwards
escape_xattr(inf, a, value, n) ==
    [inf EXCEPT !.xattr = SetAttribute(@, a, EscapeRun(value, n).stored)]

(* ------------------------------ the bag -------------------------------- *)
\* GFileInfoRequestFlags used by this file, and one stat-derived flag
StandardFlags ==
    {"NAME", "IS_HIDDEN", "SYMLINK_TARGET", "ACCESS_RIGHTS", "DISPLAY_NAME",
     "EDIT_NAME", "MIME_TYPE", "ICON", "SIZE"}
PlaceholderFlags ==
    {"ACCESS_RIGHTS", "DISPLAY_NAME", "EDIT_NAME", "MIME_TYPE", "ICON"}

\* a C string argument that may be NULL
NullStr == [null |-> TRUE, str |-> <<>>]
Str(s) == [null |-> FALSE, str |-> s]
\* s[0] of a non-NULL C string (the terminator when the string is empty)
Char0(s) == IF Len(s) = 0 THEN NUL ELSE s[1]

\* g_file_info_new: keys holds the standard keys present, xattr the
\* xattr:<name> entries, stat the flags g_file_info_set_from_stat served
NewInfo ==
    [keys |-> {}, name |-> NullStr, is_hidden |-> FALSE, stat |-> {},
     symlink_target |-> -1, selinux |-> "", xattr |-> {}]

g_file_info_set_name(inf, b) ==
    [inf EXCEPT !.keys = @ \cup {"name"}, !.name = b]
g_file_info_set_is_hidden(inf, h) ==
    [inf EXCEPT !.keys = @ \cup {"is_hidden"}, !.is_hidden = h]
g_file_info_set_from_stat(inf, req) ==
    [inf EXCEPT !.stat = req \cap {"SIZE"}]
\* a NULL target adds no field
g_file_info_set_symlink_target(inf, l) ==
    IF l.null THEN inf
    ELSE [inf EXCEPT !.keys = @ \cup {"symlink_target"}, !.symlink_target = l.read]

\* g_file_info_set_attribute (info, "selinux:context", context): the key is
\* set to whatever pointer it is given
SetSelinuxContext(inf, context) ==
    [inf EXCEPT !.keys = @ \cup {"selinux:context"}, !.selinux = context]

(* ------------------------------ the matcher ---------------------------- *)
\* a parsed request: all = the xattr namespace is enumerated as a whole,
\* keys = the explicitly named xattr keys, selinux = selinux:context matches
NullMatcher == [null |-> TRUE, all |-> FALSE, keys |-> <<>>, selinux |-> FALSE]
g_file_attribute_matcher_matches(m) == (~m.null) /\ m.selinux
g_file_attribute_matcher_enumerate(m) == (~m.null) /\ m.all
\* the next explicit key after pos keys were yielded, NULL when exhausted
g_file_attribute_matcher_enumerate_next(m, pos) ==
    IF m.null \/ pos >= Len(m.keys) THEN NullStr ELSE Str(m.keys[pos + 1])

(* ------------------------------ the file system ------------------------ *)
\* the attribute names "a" and "bc"
NameA == <<97>>
NameB == <<98, 99>>
XattrNames == {NameA, NameB}

\* attribute values: empty, exactly what the stack buffer takes, one byte
\* more (and starting with a NUL and a high byte), and longer
XattrValues ==
    {<<>>, Rep(66, StackValueSize - 1),
     <<NUL, 255>> \o Rep(104, StackValueSize - 2), Rep(67, StackValueSize + 6)}

\* sequences without repetition over S, of length at most n
RECURSIVE DistinctSeqs(_, _)
DistinctSeqs(S, n) ==
    IF n = 0 THEN {<<>>}
    ELSE LET shorter == DistinctSeqs(S, n - 1)
         IN  shorter \cup
             {Append(q, x) : q \in {r \in shorter : Len(r) = n - 1}, x \in S}
DistinctSeqsOver(S, n) ==
    {q \in DistinctSeqs(S, n) : \A i, j \in 1..Len(q) : i # j => q[i] # q[j]}

\* the attributes of the file, in the order the kernel lists them
XattrStates ==
    UNION {{[i \in 1..Len(ns) |-> [name |-> ns[i], value |-> vs[i]]] :
               vs \in [1..Len(ns) -> XattrValues]} :
           ns \in DistinctSeqsOver(XattrNames, Cardinality(XattrNames))}

HasXattr(xs, n) == \E i \in 1..Len(xs) : xs[i].name = n
XattrValue(xs, n) == xs[CHOOSE i \in 1..Len(xs) : xs[i].name = n].value

\* the name list as the kernel writes it: every name followed by a NUL
RECURSIVE ListBytes(_)
ListBytes(xs) ==
    IF xs = <<>> THEN <<>>
    ELSE xs[1].name \o <<NUL>> \o ListBytes(Tail(xs))

\* an error any call may return whatever the file holds
InjectedError == [res |-> -1, errno |-> "EACCES", data |-> <<>>]

\* getxattr/lgetxattr (path, name, buf, size) on the current attributes
GetxattrAnswer(xs, n, sz) ==
    IF ~HasXattr(xs, n) THEN [res |-> -1, errno |-> "ENODATA", data |-> <<>>]
    ELSE LET v == XattrValue(xs, n)
         IN  IF sz = 0 THEN [res |-> Len(v), errno |-> "", data |-> <<>>]
             ELSE IF Len(v) > sz THEN [res |-> -1, errno |-> "ERANGE", data |-> <<>>]
             ELSE [res |-> Len(v), errno |-> "", data |-> v]
GetxattrAnswers(xs, n, sz) == {GetxattrAnswer(xs, n, sz), InjectedError}

\* listxattr/llistxattr (path, list, size) on the current attributes
ListxattrAnswer(xs, sz) ==
    LET bytes == ListBytes(xs)
    IN  IF sz = 0 THEN [res |-> Len(bytes), errno |-> "", data |-> <<>>]
        ELSE IF Len(bytes) > sz THEN [res |-> -1, errno |-> "ERANGE", data |-> <<>>]
        ELSE [res |-> Len(bytes), errno |-> "", data |-> bytes]
ListxattrAnswers(xs, sz) == {ListxattrAnswer(xs, sz), InjectedError}

\* link targets by length; -1: the path is no symbolic link
LinkTargets == {-1, 10, 255, 256, 500, 511, 512, 1100}
\* readlink (path, buffer, size): the bytes copied, never more than size
ReadlinkAnswers(target, sz) ==
    {-1} \cup (IF target >= 0 THEN {IF target < sz THEN target ELSE sz} ELSE {})

OsErrors == {"ENOENT", "EACCES"}

\* getfilecon_raw, lgetfilecon_raw, fgetfilecon_raw (.., &context): a
\* failure, or a result >= 0 with context pointing to the label or NULL
FileLabels == {"error", "NULL", "context"}
LabelAnswer(l) ==
    IF l = "error" THEN [res |-> -1, errno |-> "ENOTSUP", context |-> "NULL"]
    ELSE [res |-> 0, errno |-> "", context |-> l]

(* ------------------------------ state ---------------------------------- *)
VARIABLES
    pc,                \* where the running call stands
    entry,             \* "path": g_file_info_simple_get, "fd": ..._get_from_fd
    basename, requested, attribute_matcher, follow_symlinks,
    have_selinux,      \* built with HAVE_SELINUX
    selinux_enabled,   \* what is_selinux_enabled () returns on this host
    file_label,        \* what a label query on this file answers
    hostile,           \* the file system says "too small" to any list buffer
    info, ret, error,  \* the bag, what the caller receives, the GError
    matcher_pos,       \* keys g_file_attribute_matcher_enumerate_next yielded
    size, link,        \* read_link
    list, list_size, list_res_size, attr_off,     \* get_xattrs
    attr, value_p, len, gets,                     \* get_one_xattr
    link_target, xattrs, races, faults,           \* the file, and its changes
    calls,             \* the system calls issued so far, in order
    fetched,           \* the names get_one_xattr was invoked with, in order
    heap,              \* the buffers allocated and not yet freed
    esc,               \* the last escape_xattr call
    term               \* the last terminator write: index and buffer size

inputs == <<entry, basename, requested, attribute_matcher, follow_symlinks, have_selinux,
            selinux_enabled, file_label, hostile>>
outv == <<info, ret, error>>
rlv == <<size, link>>
gxv == <<list, list_size, list_res_size, attr_off, matcher_pos>>
g1v == <<attr, value_p, len, gets>>
osv == <<link_target, xattrs, races, faults>>
vars == <<pc, inputs, outv, rlv, gxv, g1v, osv, calls, fetched, heap, esc, term>>

\* one system call: the function, the attribute named, the buffer size
\* passed, the result and errno
Call(fn, a, sz, res, e) == [fn |-> fn, arg |-> a, size |-> sz, res |-> res, errno |-> e]
NoRun == [branch |-> "none", alloc |-> 0, written |-> <<>>, stored |-> <<>>]
NoEscape == [attr |-> <<>>, len |-> 0, value |-> <<>>, run |-> NoRun]
NoTerm == [idx |-> 0, cap |-> 1]
NullLink == [null |-> TRUE, read |-> 0, target |-> -1]
NullValue == [where |-> "null", cap |-> 0]

\* the locals before the call has touched them
IdleLocals ==
    /\ info = NewInfo /\ ret = "pending" /\ error = "none"
    /\ matcher_pos = 0
    /\ size = 0 /\ link = NullLink
    /\ list = <<>> /\ list_size = 0 /\ list_res_size = 0 /\ attr_off = 0
    /\ attr = <<>> /\ value_p = NullValue /\ len = 0 /\ gets = 0
    /\ races = 0 /\ faults = 0
    /\ calls = <<>> /\ fetched = <<>> /\ heap = {}
    /\ term = NoTerm

(* ------------------------ g_file_info_simple_get ----------------------- *)
IsHidden(b) == (~b.null) /\ Char0(b.str) = Dot

\* "Avoid stat in trivial case"
TrivialCaseNoFlags(req, m) == req = {} /\ m.null
TrivialCase(req, m) == (req \ {"NAME", "IS_HIDDEN"}) = {} /\ m.null

\* lines 261-275: the bag, name, is-hidden, and the return without stat
GetStart ==
    /\ pc = "start" /\ entry = "path"
    /\ LET named == IF "NAME" \in requested
                    THEN g_file_info_set_name(NewInfo, basename) ELSE NewInfo
       IN  info' = IF "IS_HIDDEN" \in requested
                   THEN g_file_info_set_is_hidden(named, IsHidden(basename))
                   ELSE named
    /\ heap' = heap \cup {"info"}
    /\ IF TrivialCase(requested, attribute_matcher)
       THEN pc' = "done" /\ ret' = "info"
       ELSE pc' = "stat" /\ ret' = ret
    /\ UNCHANGED <<inputs, error, rlv, gxv, g1v, osv, calls, fetched, esc, term>>

StatFn(follow) == IF follow THEN "stat" ELSE "lstat"
StatFailedNever(res) == FALSE
StatFailed(res) == res = -1

\* line 295: read_link is called for the symlink-target flag only
ReadsLinkOnAnyFlag(req) == req # {}
ReadsLink(req) == "SYMLINK_TARGET" \in req

\* lines 277-300 up to the call of read_link: stat or lstat, the error
\* return, g_file_info_set_from_stat, and read_link's g_malloc (256)
StatCall ==
    /\ pc = "stat"
    /\ \E res \in {0, -1}, e \in OsErrors \cup {""} :
        /\ (res = 0) = (e = "")
        /\ calls' = Append(calls, Call(StatFn(follow_symlinks), <<>>, 0, res, e))
        /\ IF StatFailed(res)
          THEN /\ heap' = heap \ {"info"}
               /\ error' = e /\ ret' = "NULL" /\ pc' = "done"
               /\ UNCHANGED <<info, size>>
          ELSE /\ info' = g_file_info_set_from_stat(info, requested)
               /\ UNCHANGED <<error, ret>>
               /\ IF ReadsLink(requested)
                  THEN /\ size' = ReadLinkInitialSize
                       /\ heap' = heap \cup {"buffer"}
                       /\ pc' = "readlink"
                  ELSE /\ pc' = "selinux"
                       /\ UNCHANGED <<size, heap>>
    /\ UNCHANGED <<inputs, link, gxv, g1v, osv, fetched, esc, term>>

(* ------------------------------ read_link ------------------------------ *)
\* line 31: readlink failed
ReadFailedNever(read_size) == FALSE
ReadFailed(read_size) == read_size < 0

ReadFitsOrFills(read_size, sz) == read_size <= sz
ReadFits(read_size, sz) == read_size < sz

\* one turn of the while loop of read_link; on return, lines 298-299 of the
\* caller: g_file_info_set_symlink_target and g_free
ReadlinkCall ==
    /\ pc = "readlink"
    /\ \E read_size \in ReadlinkAnswers(link_target, size) :
        /\ calls' = Append(calls, Call("readlink", <<>>, size, read_size,
                                      IF read_size < 0 THEN "EINVAL" ELSE ""))
        /\ IF ReadFailed(read_size)
          THEN /\ link' = NullLink
               /\ heap' = heap \ {"buffer"}
               /\ info' = g_file_info_set_symlink_target(info, NullLink)
               /\ pc' = "selinux"
               /\ UNCHANGED <<size, term>>
          ELSE IF ReadFits(read_size, size)
          THEN /\ link' = [null |-> FALSE, read |-> read_size, target |-> link_target]
               /\ term' = [idx |-> read_size, cap |-> size]
               /\ info' = g_file_info_set_symlink_target(info, link')
               /\ heap' = heap \ {"buffer"}
               /\ pc' = "selinux"
               /\ UNCHANGED size
          ELSE /\ size' = size * 2
               /\ UNCHANGED <<link, term, info, heap, pc>>
    /\ UNCHANGED <<inputs, ret, error, gxv, g1v, osv, fetched, esc>>

\* another process retargets the link between two readlink calls
LinkRace ==
    /\ pc = "readlink" /\ size > ReadLinkInitialSize
    /\ races < MaxRaces
    /\ \E t \in LinkTargets \ {link_target} : link_target' = t
    /\ races' = races + 1
    /\ UNCHANGED <<pc, inputs, outv, rlv, gxv, g1v, xattrs, faults, calls, fetched,
                   heap, esc, term>>

(* --------------------------- get_selinux_context ----------------------- *)
SelinuxFn(follow) == IF follow THEN "lgetfilecon_raw" ELSE "getfilecon_raw"

\* lines 68-72: only a non-NULL context is stored
ContextStored(context) == context # "NULL"

\* the whole of get_selinux_context
GetSelinuxContext ==
    /\ pc = "selinux"
    /\ pc' = "get_xattrs"
    /\ IF /\ have_selinux
          /\ g_file_attribute_matcher_matches(attribute_matcher)
          /\ selinux_enabled # 0
       THEN LET a == LabelAnswer(file_label)
            IN  /\ calls' = Append(calls, Call(SelinuxFn(follow_symlinks), <<>>, 0,
                                              a.res, a.errno))
                /\ info' = IF a.res >= 0 /\ ContextStored(a.context)
                           THEN SetSelinuxContext(info, a.context)
                           ELSE info
       ELSE UNCHANGED <<calls, info>>
    /\ UNCHANGED <<inputs, ret, error, rlv, gxv, g1v, osv, fetched, heap, esc, term>>

(* ------------------------------ get_xattrs ----------------------------- *)
ListFn(follow) == IF follow THEN "listxattr" ELSE "llistxattr"
GetFnNeverFollows(follow) == "lgetxattr"
GetFn(follow) == IF follow THEN "getxattr" ELSE "lgetxattr"

Fault(a) == IF a = InjectedError THEN 1 ELSE 0

\* the C string that starts at offset off of the list buffer
CStrAt(buf, off) == CStr(SubSeq(buf, off + 1, Len(buf)))

ProbeSaysNone(res) == res = -1 \/ res = 0

\* line 200: the name list is asked for in enumerate-all mode only
ListsNamespaceAlways(all) == TRUE
ListsNamespace(all) == all

\* lines 198-212: the mode, and in enumerate-all mode the zero-length list
\* call and the allocation of the list
GetXattrsStart ==
    /\ pc = "get_xattrs"
    /\ IF ListsNamespace(g_file_attribute_matcher_enumerate(attribute_matcher))
       THEN \E a \in ListxattrAnswers(xattrs, 0) :
              /\ calls' = Append(calls, Call(ListFn(follow_symlinks), <<>>, 0, a.res, a.errno))
              /\ faults' = faults + Fault(a)
              /\ list_res_size' = a.res
              /\ IF ProbeSaysNone(a.res)
                 THEN /\ pc' = "done" /\ ret' = "info"
                      /\ UNCHANGED <<list_size, heap>>
                 ELSE /\ list_size' = a.res
                      /\ heap' = heap \cup {"list"}
                      /\ pc' = "list" /\ ret' = ret
       ELSE /\ pc' = "explicit"
            /\ UNCHANGED <<calls, faults, list_res_size, list_size, heap, ret>>
    /\ UNCHANGED <<inputs, info, error, rlv, list, attr_off, matcher_pos, g1v,
                   link_target, xattrs, races, fetched, esc, term>>

ListTooSmall(a) == a.res = -1 /\ a.errno = "ERANGE"

\* the list calls into a buffer made so far
ListTries ==
    Cardinality({i \in 1..Len(calls) :
                    calls[i].fn \in {"listxattr", "llistxattr"} /\ calls[i].size > 0})
\* a hostile file system answers ERANGE whatever the size; MaxGrowth such
\* answers are followed here
HostileAnswers ==
    IF hostile /\ ListTries < MaxGrowth
    THEN {[res |-> -1, errno |-> "ERANGE", data |-> <<>>]}
    ELSE {}

\* lines 214-231: the list call at label retry, the doubling, the error
\* return, and attr = list
ListCall ==
    /\ pc = "list"
    /\ \E a \in ListxattrAnswers(xattrs, list_size) \cup HostileAnswers :
          /\ calls' = Append(calls, Call(ListFn(follow_symlinks), <<>>, list_size, a.res, a.errno))
          /\ faults' = faults + Fault(a)
          /\ IF ListTooSmall(a)
             THEN /\ list_size' = list_size * 2
                  /\ list_res_size' = a.res
                  /\ UNCHANGED <<pc, ret, list, attr_off>>
             ELSE IF a.res = -1
             THEN /\ pc' = "done" /\ ret' = "info"
                  /\ list_res_size' = a.res
                  /\ UNCHANGED <<list_size, list, attr_off>>
             ELSE /\ list' = a.data
                  /\ list_res_size' = a.res
                  /\ attr_off' = 0
                  /\ pc' = "walk"
                  /\ UNCHANGED <<list_size, ret>>
    /\ UNCHANGED <<inputs, info, error, rlv, matcher_pos, g1v, link_target, xattrs,
                   races, fetched, heap, esc, term>>

WalkGoesOnInclusive(left) == left >= 0
WalkGoesOn(left) == left > 0

\* line 232 and, when the walk is over, line 240; otherwise the entry of
\* get_one_xattr for the name at attr
Walk ==
    /\ pc = "walk"
    /\ IF WalkGoesOn(list_res_size)
       THEN /\ attr' = CStrAt(list, attr_off)
            /\ fetched' = Append(fetched, attr')
            /\ gets' = 0
            /\ pc' = "get1"
            /\ UNCHANGED <<heap, ret>>
       ELSE /\ heap' = heap \ {"list"}
            /\ pc' = "done" /\ ret' = "info"
            /\ UNCHANGED <<attr, fetched, gets>>
    /\ UNCHANGED <<inputs, info, error, rlv, gxv, value_p, len, osv, calls, esc, term>>

\* line 244: the next explicit key, or the end of get_xattrs
Explicit ==
    /\ pc = "explicit"
    /\ LET k == g_file_attribute_matcher_enumerate_next(attribute_matcher, matcher_pos)
       IN  IF k.null
           THEN /\ pc' = "done" /\ ret' = "info"
                /\ UNCHANGED <<attr, fetched, gets, matcher_pos>>
           ELSE /\ attr' = k.str
                /\ matcher_pos' = matcher_pos + 1
                /\ fetched' = Append(fetched, attr')
                /\ gets' = 0
                /\ pc' = "get1" /\ ret' = ret
    /\ UNCHANGED <<inputs, info, error, rlv, list, list_size, list_res_size, attr_off,
                   value_p, len, osv, calls, heap, esc, term>>

(* ------------------------------ get_one_xattr -------------------------- *)
\* strlen (attr) + 1
WalkAdvance(a) == Len(a) + 1

\* where get_xattrs goes on after get_one_xattr returned: the while loop of
\* line 232 or the one of line 244
LoopLeftAfterGetOne(all) == "done"
LoopAfterGetOne(all) == IF all THEN "walk" ELSE "explicit"

\* get_one_xattr returns: lines 235-237 in enumerate-all mode, else back to
\* the loop of line 244
ReturnToGetXattrs ==
    IF g_file_attribute_matcher_enumerate(attribute_matcher)
    THEN /\ attr_off' = attr_off + WalkAdvance(attr)
         /\ list_res_size' = list_res_size - WalkAdvance(attr)
         /\ pc' = LoopAfterGetOne(TRUE)
    ELSE /\ pc' = LoopAfterGetOne(FALSE)
         /\ UNCHANGED <<attr_off, list_res_size>>

\* lines 177-179: the terminator, and escape_xattr on the n bytes fetched
StoreValue(data, n, cap) ==
    /\ term' = [idx |-> n, cap |-> cap]
    /\ esc' = [attr |-> attr, len |-> n, value |-> data \o <<NUL>>,
               run |-> EscapeRun(data \o <<NUL>>, n)]
    /\ info' = escape_xattr(info, attr, data \o <<NUL>>, n)

FirstGetSizeWholeBuffer == StackValueSize
FirstGetSize == StackValueSize - 1

NeedsProbe(a) == a.res = -1 /\ a.errno = "ERANGE"

\* lines 142-149 and 173-174: the get into the stack buffer
GetOneFirst ==
    /\ pc = "get1"
    /\ \E a \in GetxattrAnswers(xattrs, attr, FirstGetSize) :
          /\ calls' = Append(calls, Call(GetFn(follow_symlinks), attr, FirstGetSize, a.res, a.errno))
          /\ faults' = faults + Fault(a)
          /\ gets' = gets + 1
          /\ len' = a.res
          /\ IF a.res >= 0
             THEN /\ value_p' = [where |-> "stack", cap |-> StackValueSize]
                  /\ StoreValue(a.data, a.res, StackValueSize)
                  /\ ReturnToGetXattrs
             ELSE IF NeedsProbe(a)
             THEN /\ pc' = "get_probe"
                  /\ UNCHANGED <<value_p, info, esc, term, attr_off, list_res_size>>
             ELSE /\ ReturnToGetXattrs
                  /\ UNCHANGED <<value_p, info, esc, term>>
    /\ UNCHANGED <<inputs, ret, error, rlv, list, list_size, matcher_pos, attr,
                   link_target, xattrs, races, fetched, heap>>

\* lines 152-160: the zero-length get and the allocation of len + 1 bytes
GetOneProbe ==
    /\ pc = "get_probe"
    /\ \E a \in GetxattrAnswers(xattrs, attr, 0) :
          /\ calls' = Append(calls, Call(GetFn(follow_symlinks), attr, 0, a.res, a.errno))
          /\ faults' = faults + Fault(a)
          /\ gets' = gets + 1
          /\ len' = a.res
          /\ IF a.res < 0
             THEN /\ ReturnToGetXattrs
                  /\ UNCHANGED <<value_p, heap>>
             ELSE /\ value_p' = [where |-> "heap", cap |-> a.res + 1]
                  /\ heap' = heap \cup {"value_p"}
                  /\ pc' = "get_refetch"
                  /\ UNCHANGED <<attr_off, list_res_size>>
    /\ UNCHANGED <<inputs, outv, rlv, list, list_size, matcher_pos, attr,
                   link_target, xattrs, races, fetched, esc, term>>

\* what the bytes of a buffer the kernel did not fill may read as
GarbageBytes == {NUL, 65}

\* lines 162-183: the get into the allocated buffer.  A terminator written
\* past the buffer is undefined behaviour: the call crashes, or goes on with
\* whatever the memory holds
GetOneRefetch ==
    /\ pc = "get_refetch"
    /\ \E a \in GetxattrAnswers(xattrs, attr, len) :
          /\ calls' = Append(calls, Call(GetFn(follow_symlinks), attr, len, a.res, a.errno))
          /\ faults' = faults + Fault(a)
          /\ gets' = gets + 1
          /\ len' = a.res
          /\ value_p' = NullValue
          /\ IF a.res < 0
             THEN /\ heap' = heap \ {"value_p"}
                  /\ ReturnToGetXattrs
                  /\ UNCHANGED <<info, esc, term>>
             ELSE IF a.res < value_p.cap
             THEN /\ StoreValue(a.data, a.res, value_p.cap)
                  /\ heap' = heap \ {"value_p"}
                  /\ ReturnToGetXattrs
             ELSE \/ /\ pc' = "crashed"
                     /\ term' = [idx |-> a.res, cap |-> value_p.cap]
                     /\ UNCHANGED <<info, esc, heap, attr_off, list_res_size>>
                  \/ /\ \E g \in GarbageBytes : StoreValue(Rep(g, a.res), a.res, value_p.cap)
                     /\ heap' = heap \ {"value_p"}
                     /\ ReturnToGetXattrs
    /\ UNCHANGED <<inputs, ret, error, rlv, list, list_size, matcher_pos, attr,
                   link_target, xattrs, races, fetched>>

\* what another process may do to the attributes in one step: rewrite one
\* value, remove one attribute, or add one
XattrChanges(xs) ==
    {[xs EXCEPT ![i].value = v] : i \in 1..Len(xs), v \in XattrValues} \cup
    {SubSeq(xs, 1, i - 1) \o SubSeq(xs, i + 1, Len(xs)) : i \in 1..Len(xs)} \cup
    {Append(xs, [name |-> n, value |-> v]) :
        n \in {m \in XattrNames : ~HasXattr(xs, m)},
        v \in XattrValues}

\* another process changes the attributes between two xattr calls
XattrRace ==
    /\ pc \in {"list", "get1", "get_probe", "get_refetch"}
    /\ calls # <<>> /\ calls[Len(calls)].fn \in {"listxattr", "llistxattr", "getxattr", "lgetxattr"}
    /\ races < MaxRaces
    /\ \E xs \in XattrChanges(xattrs) \ {xattrs} : xattrs' = xs
    /\ races' = races + 1
    /\ UNCHANGED <<pc, inputs, outv, rlv, gxv, g1v, link_target, faults, calls,
                   fetched, heap, esc, term>>

(* -------------------- g_file_info_simple_get_from_fd ------------------- *)
\* lines 344-354: fstat, the error return, the bag and the matcher
FdStat ==
    /\ pc = "start" /\ entry = "fd"
    /\ \E res \in {0, -1}, e \in OsErrors \cup {""} :
        /\ (res = 0) = (e = "")
        /\ calls' = Append(calls, Call("fstat", <<>>, 0, res, e))
        /\ IF StatFailed(res)
          THEN /\ error' = e /\ ret' = "NULL" /\ pc' = "done"
               /\ UNCHANGED <<info, heap>>
          ELSE /\ info' = g_file_info_set_from_stat(NewInfo, requested)
               /\ heap' = heap \cup {"info", "matcher"}
               /\ pc' = "fd_selinux"
               /\ UNCHANGED <<error, ret>>
    /\ UNCHANGED <<inputs, rlv, gxv, g1v, osv, fetched, esc, term>>

\* line 368: g_file_attribute_matcher_free (matcher)
MatcherKept(h) == h
MatcherFreed(h) == h \ {"matcher"}

\* lines 356-370: the label of the descriptor, g_file_attribute_matcher_free
FdSelinux ==
    /\ pc = "fd_selinux"
    /\ pc' = "done" /\ ret' = "info"
    /\ heap' = MatcherFreed(heap)
    /\ IF /\ have_selinux
          /\ g_file_attribute_matcher_matches(attribute_matcher)
          /\ selinux_enabled # 0
       THEN LET a == LabelAnswer(file_label)
            IN  /\ calls' = Append(calls, Call("fgetfilecon_raw", <<>>, 0, a.res, a.errno))
                /\ info' = IF a.res >= 0
                           THEN SetSelinuxContext(info, a.context)
                           ELSE info
       ELSE UNCHANGED <<calls, info>>
    /\ UNCHANGED <<inputs, error, rlv, gxv, g1v, osv, fetched, esc, term>>

(* ------------------------- escape_xattr on its own --------------------- *)
\* escape_xattr (info, attr, value, len) applied to the arguments held in esc
EscapeXattrCall ==
    /\ pc = "escape_xattr"
    /\ esc' = [esc EXCEPT !.run = EscapeRun(esc.value, esc.len)]
    /\ info' = escape_xattr(info, esc.attr, esc.value, esc.len)
    /\ pc' = "escaped"
    /\ UNCHANGED <<inputs, ret, error, rlv, gxv, g1v, osv, calls, fetched, heap, term>>

(* ------------------------------ inputs --------------------------------- *)
Basenames == {NullStr, Str(<<>>), Str(<<Dot, 97>>), Str(<<97, Dot>>)}

RequestSets ==
    {s \cup e : s \in SUBSET {"NAME", "IS_HIDDEN", "SYMLINK_TARGET"},
                e \in {{}, {"SIZE"}, PlaceholderFlags}}

Matcher(all, keys, sel) == [null |-> FALSE, all |-> all, keys |-> keys, selinux |-> sel]
\* a namespace is matched as a whole or by explicit keys, never both
Matchers ==
    {NullMatcher} \cup
    {Matcher(TRUE, <<>>, sel) : sel \in BOOLEAN} \cup
    {Matcher(FALSE, ks, sel) : ks \in DistinctSeqsOver(XattrNames, Cardinality(XattrNames)), sel \in BOOLEAN}

WantsXattrs(m) == (~m.null) /\ (m.all \/ m.keys # <<>>)

\* bytes around every boundary valid_char tests
ByteSamples == {NUL, 31, 32, 65, Backslash, 126, 127, 128, 171, 255}
RECURSIVE SeqsUpTo(_, _)
SeqsUpTo(S, n) ==
    IF n = 0 THEN {<<>>}
    ELSE LET shorter == SeqsUpTo(S, n - 1)
         IN  shorter \cup
             {Append(q, x) : q \in {r \in shorter : Len(r) = n - 1}, x \in S}
EscapeInputs == {<<b>> : b \in Bytes} \cup SeqsUpTo(ByteSamples, MaxLen)

(* --------------------------- specifications ---------------------------- *)
\* Any call of either entry point on a file nobody else changes.  An input
\* the call cannot read (the base name without the name flags, the link
\* without the symlink-target flag, the attributes without an xattr request,
\* the build, the host and the label without a selinux request) is held at
\* one value.
Init ==
    /\ pc = "start"
    /\ entry \in {"path", "fd"}
    /\ requested \in RequestSets
    /\ attribute_matcher \in {m \in Matchers : m.keys \in {<<>>, <<NameA>>}}
    /\ entry = "fd" => ~attribute_matcher.null
    /\ follow_symlinks \in BOOLEAN
    /\ entry = "fd" => follow_symlinks
    /\ have_selinux \in BOOLEAN
    /\ ~g_file_attribute_matcher_matches(attribute_matcher) => have_selinux
    /\ selinux_enabled \in {0, 1}
    /\ (~have_selinux \/ ~g_file_attribute_matcher_matches(attribute_matcher))
          => selinux_enabled = 1
    /\ hostile = FALSE
    /\ file_label \in FileLabels
    /\ (~have_selinux \/ ~g_file_attribute_matcher_matches(attribute_matcher)
          \/ selinux_enabled = 0) => file_label = "context"
    /\ basename \in Basenames
    /\ (entry = "fd" \/ requested \cap {"NAME", "IS_HIDDEN"} = {}) => basename = NullStr
    /\ link_target \in {-1, 500}
    /\ (entry = "fd" \/ "SYMLINK_TARGET" \notin requested) => link_target = -1
    /\ xattrs \in {xs \in XattrStates :
                      xs = <<>> \/ (Len(xs) = 1 /\ xs[1].name = NameA
                                    /\ Len(xs[1].value) >= StackValueSize)}
    /\ ~WantsXattrs(attribute_matcher) => xattrs = <<>>
    /\ IdleLocals /\ esc = NoEscape

Next ==
    \/ GetStart \/ StatCall \/ ReadlinkCall \/ GetSelinuxContext
    \/ GetXattrsStart \/ ListCall \/ Walk \/ Explicit
    \/ GetOneFirst \/ GetOneProbe \/ GetOneRefetch
    \/ FdStat \/ FdSelinux

Spec == Init /\ [][Next]_vars

\* read_link reached from g_file_info_simple_get, on every link target,
\* with other processes retargeting the link
InitReadLink ==
    /\ pc = "start" /\ entry = "path"
    /\ requested \in {s \in RequestSets : "SYMLINK_TARGET" \in s /\ "NAME" \notin s}
    /\ attribute_matcher \in {NullMatcher, Matcher(FALSE, <<>>, FALSE)}
    /\ follow_symlinks \in BOOLEAN
    /\ have_selinux = TRUE
    /\ selinux_enabled = 1 /\ file_label = "context"
    /\ hostile = FALSE
    /\ basename = Str(<<Dot, 97>>)
    /\ link_target \in LinkTargets
    /\ xattrs = <<>>
    /\ IdleLocals /\ esc = NoEscape

NextReadLink ==
    \/ GetStart \/ StatCall \/ ReadlinkCall \/ LinkRace \/ GetSelinuxContext
    \/ GetXattrsStart \/ Explicit

SpecReadLink == InitReadLink /\ [][NextReadLink]_vars

\* the extended-attribute collection reached from g_file_info_simple_get,
\* on every attribute set, with other processes changing the attributes
InitXattr ==
    /\ pc = "start" /\ entry = "path"
    /\ requested = {}
    /\ attribute_matcher \in {m \in Matchers : WantsXattrs(m) /\ ~m.selinux}
    /\ follow_symlinks \in BOOLEAN
    /\ have_selinux = TRUE
    /\ selinux_enabled = 1 /\ file_label = "context"
    /\ hostile = FALSE
    /\ basename = NullStr
    /\ link_target = -1
    /\ xattrs \in XattrStates
    /\ IdleLocals /\ esc = NoEscape

NextXattr ==
    \/ GetStart \/ StatCall \/ GetSelinuxContext
    \/ GetXattrsStart \/ ListCall \/ Walk \/ Explicit
    \/ GetOneFirst \/ GetOneProbe \/ GetOneRefetch \/ XattrRace

SpecXattr == InitXattr /\ [][NextXattr]_vars

\* the enumerate-all collection on a file system that answers ERANGE to
\* list calls whatever the buffer size
InitGrowth ==
    /\ pc = "start" /\ entry = "path"
    /\ requested = {}
    /\ attribute_matcher = Matcher(TRUE, <<>>, FALSE)
    /\ follow_symlinks \in BOOLEAN
    /\ have_selinux = TRUE
    /\ selinux_enabled = 1 /\ file_label = "context"
    /\ hostile = TRUE
    /\ basename = NullStr
    /\ link_target = -1
    /\ xattrs \in XattrStates
    /\ IdleLocals /\ esc = NoEscape

NextGrowth ==
    \/ GetStart \/ StatCall \/ GetSelinuxContext
    \/ GetXattrsStart \/ ListCall \/ Walk
    \/ GetOneFirst \/ GetOneProbe \/ GetOneRefetch

SpecGrowth == InitGrowth /\ [][NextGrowth]_vars

\* escape_xattr called on every single byte and on every short sequence of
\* boundary bytes
InitEscape ==
    /\ pc = "escape_xattr" /\ entry = "path"
    /\ requested = {}
    /\ attribute_matcher = Matcher(FALSE, <<NameA>>, FALSE)
    /\ follow_symlinks = TRUE
    /\ have_selinux = TRUE
    /\ selinux_enabled = 1 /\ file_label = "context"
    /\ hostile = FALSE
    /\ basename = NullStr
    /\ link_target = -1
    /\ xattrs = <<>>
    /\ IdleLocals
    /\ \E v \in EscapeInputs :
          esc = [attr |-> NameA, len |-> Len(v), value |-> v \o <<NUL>>,
                 run |-> NoRun]

NextEscape == EscapeXattrCall

SpecEscape == InitEscape /\ [][NextEscape]_vars

(* ------------------------------- claims -------------------------------- *)
CallsOf(fns) == SelectSeq(calls, LAMBDA c : c.fn \in fns)
PrimaryFns == {"stat", "lstat", "fstat"}
ListFns == {"listxattr", "llistxattr"}
GetFns == {"getxattr", "lgetxattr"}

RECURSIVE Pow2(_)
Pow2(k) == IF k = 0 THEN 1 ELSE 2 * Pow2(k - 1)

\* C1: a path-based call that requests nothing but NAME and/or IS_HIDDEN and
\* has no matcher returns the bag after its first step without one system
\* call, and the bag holds exactly the requested ones of name and is-hidden,
\* is-hidden being true iff the base name is not NULL and starts with '.'.
C1_FastPathNoOsCall ==
    (entry = "path" /\ pc # "start"
       /\ requested \subseteq {"NAME", "IS_HIDDEN"} /\ attribute_matcher.null)
    => /\ pc = "done" /\ ret = "info" /\ error = "none"
       /\ calls = <<>>
       /\ info.keys = {k \in {"name", "is_hidden"} :
                          \/ k = "name" /\ "NAME" \in requested
                          \/ k = "is_hidden" /\ "IS_HIDDEN" \in requested}
       /\ info.stat = {} /\ info.xattr = {}
       /\ "NAME" \in requested => info.name = basename
       /\ "IS_HIDDEN" \in requested =>
             info.is_hidden = (/\ ~basename.null
                               /\ Len(basename.str) > 0
                               /\ basename.str[1] = Dot)

C1_Witness ==
    /\ entry = "path" /\ pc = "done" /\ ret = "info" /\ calls = <<>>
    /\ requested = {"NAME", "IS_HIDDEN"} /\ attribute_matcher.null
    /\ basename = Str(<<Dot, 97>>)
    /\ info.keys = {"name", "is_hidden"} /\ info.is_hidden

\* C2: when stat, lstat or fstat fails, it is the last system call of the
\* run, the caller receives NULL instead of a bag, and the error carries the
\* errno of the failed call.
C2_PrimaryFailureAborts ==
    \A i \in 1..Len(calls) :
        (calls[i].fn \in PrimaryFns /\ calls[i].res = -1)
        => /\ i = Len(calls)
           /\ pc = "done" /\ ret = "NULL"
           /\ error = calls[i].errno /\ error \in OsErrors

C2_Witness ==
    /\ entry = "path" /\ pc = "done" /\ ret = "NULL" /\ error = "ENOENT"
    /\ "SYMLINK_TARGET" \in requested
    /\ attribute_matcher.all /\ attribute_matcher.selinux /\ have_selinux
    /\ Len(calls) = 1 /\ calls[1].fn = "lstat" /\ calls[1].res = -1

\* C3: read_link starts with 256 bytes and doubles after every readlink that
\* fills the buffer; it returns a target only from a call that read fewer
\* bytes than the buffer holds, the whole target, terminated at that length;
\* on an unchanged target of length L it makes k + 1 calls, k the least
\* number with L < 256 * 2^k; after a failed readlink there is no target.
C3_ReadLinkDoubles ==
    LET rl == CallsOf({"readlink"})
        n == Len(rl)
    IN  /\ \A i \in 1..n : rl[i].size = ReadLinkInitialSize * Pow2(i - 1)
        /\ \A i \in 1..(n - 1) : rl[i].res = rl[i].size
        /\ (pc = "readlink") =>
              /\ size = ReadLinkInitialSize * Pow2(n)
              /\ n > 0 => rl[n].res = rl[n].size
              /\ link.null /\ "symlink_target" \notin info.keys
        /\ (n > 0 /\ pc # "readlink") =>
              IF rl[n].res < 0
              THEN link.null /\ "symlink_target" \notin info.keys
              ELSE /\ rl[n].res < rl[n].size
                   /\ ~link.null /\ link.read = rl[n].res /\ link.read = link.target
                   /\ term = [idx |-> rl[n].res, cap |-> rl[n].size]
                   /\ info.symlink_target = link.read
                   /\ races = 0 =>
                         /\ link_target < ReadLinkInitialSize * Pow2(n - 1)
                         /\ n > 1 => link_target >= ReadLinkInitialSize * Pow2(n - 2)

C3_Witness ==
    /\ pc = "done" /\ races = 0 /\ link_target = 500
    /\ ~link.null /\ link.read = 500 /\ size = 2 * ReadLinkInitialSize
    /\ Len(CallsOf({"readlink"})) = 2

(* escape_xattr: what the claims say of one call, in terms of its input *)
\* the len bytes handed to the last escape_xattr call
EscIn == SubSeq(esc.value, 1, esc.len)
\* a byte outside 32..126, or the backslash
Unsafe(b) == b < 32 \/ b > 126 \/ b = Backslash
UnsafeBefore(v, i) == Cardinality({j \in 1..(i - 1) : Unsafe(v[j])})
UnsafeIn(v) == Cardinality({j \in 1..Len(v) : Unsafe(v[j])})
\* where the output for input byte i starts
OutPos(v, i) == i + 3 * UnsafeBefore(v, i)
\* the lowercase hex digit of d in 0..15
HexDigit(d) == IF d < 10 THEN 48 + d ELSE 87 + d
\* the string the bag holds under xattr:<attr> after the call
EscStored == (CHOOSE e \in info.xattr : e.attr = esc.attr).value

\* C4 as claimed: every unsafe byte becomes backslash, 'x' and the hex digit
\* of its low nibble twice.
C4_LowNibbleTwice ==
    pc = "escaped" =>
        \A i \in 1..esc.len :
            Unsafe(EscIn[i]) =>
                SubSeq(esc.run.written, OutPos(EscIn, i), OutPos(EscIn, i) + 3)
                  = <<Backslash, LetterX, HexDigit(EscIn[i] % 16), HexDigit(EscIn[i] % 16)>>

\* C4 amended: every unsafe byte becomes exactly four characters: backslash,
\* 'x', the digit '0', and the lowercase hex digit of its low nibble; the
\* high nibble is dropped, so 0xFF becomes backslash 'x' '0' 'f'.
C4_ZeroThenLowNibble ==
    pc = "escaped" =>
        /\ \A i \in 1..esc.len :
              Unsafe(EscIn[i]) =>
                  SubSeq(esc.run.written, OutPos(EscIn, i), OutPos(EscIn, i) + 3)
                    = <<Backslash, LetterX, 48, HexDigit(EscIn[i] % 16)>>
        /\ UnsafeIn(EscIn) > 0 =>
              Len(esc.run.written) = esc.len + 3 * UnsafeIn(EscIn) + 1
        /\ EscIn = <<255>> => EscStored = <<Backslash, LetterX, 48, 102>>

C4_Witness ==
    /\ pc = "escaped" /\ EscIn = <<255>>
    /\ esc.run.written = <<Backslash, LetterX, 48, 102, NUL>>

\* C5: a value whose bytes all lie in 32..126 and are no backslash is stored
\* unchanged under xattr:<name>, by the branch that allocates nothing.
C5_SafeValueVerbatim ==
    (pc = "escaped" /\ \A i \in 1..esc.len : ~Unsafe(EscIn[i]))
    => /\ esc.run.branch = "verbatim"
       /\ esc.run.alloc = 0 /\ esc.run.written = <<>>
       /\ info.xattr = {[attr |-> esc.attr, value |-> EscIn]}

C5_Witness ==
    /\ pc = "escaped" /\ EscIn = <<32, 126, 65>>
    /\ esc.run.branch = "verbatim" /\ EscStored = <<32, 126, 65>>

\* C6: whatever the len bytes are, the stored string holds only bytes in
\* 32..126, keeps every safe byte at its place and in order, and is
\* len + 3 * (unsafe bytes) long; when a buffer is allocated the writes fill
\* it exactly, the terminator being its last byte and the only NUL.
C6_StoredIsPrintable ==
    pc = "escaped" =>
        /\ \A k \in 1..Len(EscStored) : EscStored[k] >= 32 /\ EscStored[k] <= 126
        /\ Len(EscStored) = esc.len + 3 * UnsafeIn(EscIn)
        /\ \A i \in 1..esc.len :
              ~Unsafe(EscIn[i]) => EscStored[OutPos(EscIn, i)] = EscIn[i]
        /\ esc.run.branch = "escaped" =>
              /\ esc.run.alloc = esc.len + 3 * UnsafeIn(EscIn) + 1
              /\ Len(esc.run.written) = esc.run.alloc
              /\ esc.run.written[esc.run.alloc] = NUL
              /\ \A k \in 1..(esc.run.alloc - 1) : esc.run.written[k] # NUL
              /\ Len(EscStored) = esc.run.alloc - 1
        /\ (esc.run.branch = "escaped") = (UnsafeIn(EscIn) > 0)

C6_Witness ==
    /\ pc = "escaped" /\ EscIn = <<NUL, 128, 65>>
    /\ esc.run.alloc = 10 /\ Len(EscStored) = 9
    /\ EscStored[9] = 65

(* the extended attributes: what the claims say of a run, in terms of the *)
(* system calls it issued                                                 *)
GetCallsFor(n) == SelectSeq(calls, LAMBDA c : c.fn \in GetFns /\ c.arg = n)
Stored(n) == \E e \in info.xattr : e.attr = n
IsErange(c) == c.res = -1 /\ c.errno = "ERANGE"
\* get_one_xattr was invoked for n and a get call failed, other than the
\* first one with ERANGE
FailedFetch(n) ==
    LET g == GetCallsFor(n)
    IN  \E i \in 1..Len(g) : g[i].res = -1 /\ (i = 1 => g[i].errno # "ERANGE")
\* the names of a list of NUL-terminated names
RECURSIVE SplitNames(_)
SplitNames(buf) ==
    IF buf = <<>> THEN <<>>
    ELSE LET nm == CStr(buf)
         IN  <<nm>> \o SplitNames(SubSeq(buf, Len(nm) + 2, Len(buf)))
\* the last list call filled the list
ListFilled ==
    LET lc == CallsOf(ListFns)
    IN  Len(lc) >= 2 /\ lc[Len(lc)].res >= 0
Range(q) == {q[i] : i \in 1..Len(q)}

\* C7: get_one_xattr on an attribute nobody changes and no call fails on: a
\* value of at most 63 bytes takes the one get into the stack buffer; a
\* longer one takes the get that fails with ERANGE, the zero-length probe and
\* the get into probed + 1 allocated bytes; either way all L bytes go to
\* escape_xattr and end under xattr:<name>.
C7_WholeValueFetched ==
    (pc \in {"walk", "explicit"} /\ gets > 0 /\ races = 0 /\ faults = 0
       /\ HasXattr(xattrs, attr))
    => LET v == XattrValue(xattrs, attr)
           L == Len(v)
           n == Len(calls)
       IN  /\ L <= StackValueSize - 1 =>
                 /\ gets = 1
                 /\ calls[n].fn \in GetFns /\ calls[n].arg = attr
                 /\ calls[n].size = StackValueSize - 1 /\ calls[n].res = L
                 /\ term = [idx |-> L, cap |-> StackValueSize]
           /\ L > StackValueSize - 1 =>
                 /\ gets = 3
                 /\ \A k \in 0..2 : calls[n - k].fn \in GetFns /\ calls[n - k].arg = attr
                 /\ calls[n - 2].size = StackValueSize - 1 /\ IsErange(calls[n - 2])
                 /\ calls[n - 1].size = 0 /\ calls[n - 1].res = L
                 /\ calls[n].size = L /\ calls[n].res = L
                 /\ term = [idx |-> L, cap |-> L + 1]
           /\ esc.attr = attr /\ esc.len = L /\ EscIn = v
           /\ \E e \in info.xattr :
                 /\ e.attr = attr
                 /\ e.value = EscapeRun(v \o <<NUL>>, L).stored
                 /\ Len(e.value) = L + 3 * UnsafeIn(v)

C7_Witness ==
    /\ pc = "walk" /\ gets = 3 /\ races = 0 /\ faults = 0
    /\ attr = NameA /\ HasXattr(xattrs, NameA)
    /\ Len(XattrValue(xattrs, NameA)) = StackValueSize
    /\ esc.len = StackValueSize /\ Stored(NameA)

\* C8: when g_file_info_simple_get ends after a successful stat, it
\* returns the bag without error, get_one_xattr was invoked for every name
\* of the list (enumerate-all) or of the matcher's keys (explicit), whatever
\* failed in between, and a key is missing from the bag exactly when its
\* own fetch failed.
C8_FailedKeyOnlyOmitted ==
    (pc = "done" /\ calls # <<>> /\ calls[1].res = 0 /\ WantsXattrs(attribute_matcher))
    => /\ ret = "info" /\ error = "none"
       /\ IF attribute_matcher.all
          THEN fetched = (IF ListFilled THEN SplitNames(list) ELSE <<>>)
          ELSE fetched = attribute_matcher.keys
       /\ \A n \in Range(fetched) : Stored(n) = ~FailedFetch(n)
       /\ \A e \in info.xattr : e.attr \in Range(fetched)

C8_Witness ==
    /\ pc = "done" /\ ret = "info" /\ attribute_matcher.all
    /\ fetched = <<NameA, NameB>>
    /\ FailedFetch(NameA) /\ ~Stored(NameA)
    /\ GetCallsFor(NameA)[1].errno = "EACCES"
    /\ Stored(NameB)

\* C9 as claimed: a key whose get calls failed with nothing but ERANGE is
\* retried until it is in the bag: it is never dropped.
C9_ErangeNeverDropsKey ==
    pc = "done" =>
        \A n \in Range(fetched) :
            (\A i \in 1..Len(GetCallsFor(n)) :
                 GetCallsFor(n)[i].res = -1 => GetCallsFor(n)[i].errno = "ERANGE")
            => Stored(n)

\* C10: in enumerate-all mode the first list call is zero-length; if it
\* returns 0 or fails it is the only xattr call and the call returns the bag;
\* otherwise the next list call uses the probed size, every list call that
\* fails with ERANGE is followed by one with twice the size, no get call
\* comes before a list call has filled the list, and then get_one_xattr is
\* invoked once per name, in list order, the walk ending at byte n.
C10_ListThenWalk ==
    (attribute_matcher.all /\ ~attribute_matcher.null)
    => LET lc == CallsOf(ListFns)
           gc == CallsOf(GetFns)
           n == Len(lc)
       IN  /\ n >= 1 => lc[1].size = 0
           /\ (n >= 1 /\ ProbeSaysNone(lc[1].res)) =>
                 /\ n = 1 /\ gc = <<>> /\ fetched = <<>>
                 /\ pc = "done" /\ ret = "info" /\ error = "none"
           /\ n >= 2 => lc[2].size = lc[1].res
           /\ \A i \in 2..(n - 1) : IsErange(lc[i]) /\ lc[i + 1].size = 2 * lc[i].size
           /\ (n >= 2 /\ IsErange(lc[n])) =>
                 pc = "list" /\ list_size = 2 * lc[n].size /\ gc = <<>>
           /\ (n >= 2 /\ lc[n].res = -1 /\ ~IsErange(lc[n])) =>
                 pc = "done" /\ ret = "info" /\ error = "none" /\ gc = <<>>
           /\ (gc # <<>> \/ fetched # <<>>) => ListFilled
           /\ \A i, j \in 1..Len(calls) :
                 (i < j /\ calls[i].fn \in GetFns) => calls[j].fn \notin ListFns
           /\ ListFilled =>
                 /\ Len(list) = lc[n].res
                 /\ attr_off + list_res_size = Len(list)
                 /\ Len(fetched) <= Len(SplitNames(list))
                 /\ \A i \in 1..Len(fetched) : fetched[i] = SplitNames(list)[i]
                 /\ pc \in {"get1", "get_probe", "get_refetch"} =>
                       /\ attr_off < Len(list)
                       /\ attr = CStrAt(list, attr_off)
                       /\ fetched[Len(fetched)] = attr
                 /\ pc = "done" =>
                       attr_off = Len(list) /\ fetched = SplitNames(list)

C10_Witness ==
    /\ attribute_matcher.all /\ pc = "done"
    /\ Len(CallsOf(ListFns)) >= 3 /\ IsErange(CallsOf(ListFns)[2])
    /\ fetched = <<NameA, NameB>>
    /\ Stored(NameA) /\ Stored(NameB)

\* C11: when the matcher does not enumerate the xattr namespace, get_xattrs
\* issues no list call, get_one_xattr is invoked once per key of the
\* matcher's explicit-key sequence, in that order, until the sequence is
\* exhausted, and no name outside the sequence is fetched or stored.
C11_ExplicitKeysOnly ==
    ~g_file_attribute_matcher_enumerate(attribute_matcher)
    => LET keys == attribute_matcher.keys
           gc == CallsOf(GetFns)
       IN  /\ CallsOf(ListFns) = <<>>
           /\ list = <<>> /\ "list" \notin heap
           /\ Len(fetched) <= Len(keys)
           /\ \A i \in 1..Len(fetched) : fetched[i] = keys[i]
           /\ matcher_pos = Len(fetched)
           /\ \A i \in 1..Len(gc) : gc[i].arg \in Range(fetched)
           /\ \A i, j \in 1..Len(gc) :
                 (i < j /\ gc[i].arg # gc[j].arg)
                 => \E a, b \in 1..Len(keys) :
                       a < b /\ keys[a] = gc[i].arg /\ keys[b] = gc[j].arg
           /\ \A e \in info.xattr : e.attr \in Range(fetched)
           /\ (pc = "done" /\ ret = "info") => fetched = keys
           /\ pc \in {"get1", "get_probe", "get_refetch"} =>
                 attr = keys[Len(fetched)]

C11_Witness ==
    /\ pc = "done" /\ ret = "info"
    /\ ~attribute_matcher.all /\ attribute_matcher.keys = <<NameB>>
    /\ HasXattr(xattrs, NameA) /\ HasXattr(xattrs, NameB)
    /\ fetched = <<NameB>> /\ Stored(NameB) /\ ~Stored(NameA)
    /\ CallsOf(ListFns) = <<>> /\ Len(CallsOf(GetFns)) = 3

\* C12: all list and get calls of one get_xattrs pass, the probes and
\* refetches of get_one_xattr included, treat a symlink the same way:
\* listxattr and getxattr when follow_symlinks is true, llistxattr and
\* lgetxattr when it is false.
C12_OneSymlinkTreatment ==
    \A i \in 1..Len(calls) :
        calls[i].fn \in ListFns \cup GetFns
        => IF follow_symlinks
           THEN calls[i].fn \in {"listxattr", "getxattr"}
           ELSE calls[i].fn \in {"llistxattr", "lgetxattr"}

C12_Witness ==
    /\ pc = "done" /\ ret = "info" /\ ~follow_symlinks
    /\ attribute_matcher.all
    /\ Len(CallsOf({"llistxattr"})) >= 3
    /\ Len(CallsOf({"lgetxattr"})) >= 4
    /\ \E i \in 1..Len(calls) : calls[i].fn = "lgetxattr" /\ calls[i].size = 0
    /\ CallsOf({"listxattr", "getxattr"}) = <<>>

LabelFns == {"getfilecon_raw", "lgetfilecon_raw", "fgetfilecon_raw"}

\* C13 as claimed: a returned bag holds selinux:context exactly when the
\* matcher matches it, selinux is compiled in and reports itself enabled, and
\* the label query succeeded with a non-NULL label; no label query is made
\* when the matcher does not match; and once the primary call succeeded the
\* bag is returned without error whatever the label query answered.
C13_SelinuxKeyIffLabelled ==
    /\ (pc = "done" /\ ret = "info")
       => ("selinux:context" \in info.keys)
            = (/\ g_file_attribute_matcher_matches(attribute_matcher)
               /\ have_selinux /\ selinux_enabled # 0
               /\ file_label = "context")
    /\ ~g_file_attribute_matcher_matches(attribute_matcher) => CallsOf(LabelFns) = <<>>
    /\ (pc = "done" /\ calls # <<>> /\ calls[1].res = 0)
       => ret = "info" /\ error = "none"

\* the place in calls of the last call of one of fns, 0 when there is none
LastCallOf(fns) ==
    LET at == {i \in 1..Len(calls) : calls[i].fn \in fns}
    IN  IF at = {} THEN 0 ELSE CHOOSE i \in at : \A j \in at : j <= i
\* the place of the first one
FirstCallOf(fns) ==
    LET at == {i \in 1..Len(calls) : calls[i].fn \in fns}
    IN  IF at = {} THEN 0 ELSE CHOOSE i \in at : \A j \in at : i <= j

\* C14: when stat succeeded and read_link failed, whichever readlink call
\* failed, the call goes on: no symlink-target field is added, no error is
\* set, get_selinux_context and get_xattrs run after the failed readlink (the
\* label query when it is due, the list call or the fetch of every explicit
\* key), and the caller receives the bag.
C14_ReadLinkFailureNotFatal ==
    LET r == LastCallOf({"readlink"})
    IN  (r > 0 /\ calls[r].res < 0)
        => /\ "SYMLINK_TARGET" \in requested /\ calls[1].res = 0
           /\ link.null
           /\ "symlink_target" \notin info.keys /\ info.symlink_target = -1
           /\ error = "none" /\ ret # "NULL"
           /\ pc \in {"selinux", "get_xattrs", "list", "walk", "explicit",
                      "get1", "get_probe", "get_refetch", "done"}
           /\ "buffer" \notin heap
           /\ (pc # "selinux" /\ have_selinux /\ selinux_enabled # 0
                 /\ g_file_attribute_matcher_matches(attribute_matcher))
              => LastCallOf(LabelFns) = r + 1
           /\ (pc \notin {"selinux", "get_xattrs"}
                 /\ g_file_attribute_matcher_enumerate(attribute_matcher))
              => FirstCallOf(ListFns) > r
           /\ pc = "done"
              => /\ ret = "info"
                 /\ ~g_file_attribute_matcher_enumerate(attribute_matcher)
                    => /\ fetched = attribute_matcher.keys
                       /\ fetched # <<>> => FirstCallOf(GetFns) > r

C14_Witness ==
    /\ pc = "done" /\ ret = "info" /\ error = "none"
    /\ "SYMLINK_TARGET" \in requested /\ link_target = 500
    /\ Len(calls) >= 4
    /\ Len(CallsOf({"readlink"})) = 2 /\ calls[3].fn = "readlink" /\ calls[3].res = -1
    /\ "symlink_target" \notin info.keys
    /\ calls[4].fn \in LabelFns /\ "selinux:context" \in info.keys
    /\ fetched = <<NameA>> /\ Stored(NameA)

\* C15: g_file_info_simple_get_from_fd, whatever the attribute string asks
\* for and whatever attributes the file has, issues fstat first and at most
\* one more call, fgetfilecon_raw, and that only when selinux is compiled in,
\* matched and enabled; it never invokes get_one_xattr, allocates no list or
\* value buffer and adds no xattr: key; the matcher it built is freed when it
\* returns the bag.
C15_FdNoXattrs ==
    entry = "fd"
    => /\ \A i \in 1..Len(calls) :
             calls[i].fn = (IF i = 1 THEN "fstat" ELSE "fgetfilecon_raw")
       /\ Len(calls) <= 2
       /\ Len(calls) = 2
          => /\ have_selinux /\ selinux_enabled # 0
             /\ g_file_attribute_matcher_matches(attribute_matcher)
       /\ fetched = <<>> /\ info.xattr = {}
       /\ info.keys \subseteq {"selinux:context"}
       /\ heap \subseteq {"info", "matcher"}
       /\ pc \in {"start", "fd_selinux", "done"}
       /\ (pc = "done" /\ ret = "info") => heap = {"info"}

C15_Witness ==
    /\ entry = "fd" /\ pc = "done" /\ ret = "info"
    /\ attribute_matcher.all /\ attribute_matcher.selinux
    /\ HasXattr(xattrs, NameA)
    /\ Len(calls) = 2 /\ calls[2].fn = "fgetfilecon_raw" /\ calls[2].res = 0
    /\ info.xattr = {} /\ "matcher" \notin heap

\* C16 as claimed, for the list loop of get_xattrs: the retries are bounded
\* whatever the file system answers, so a file system that has answered
\* ERANGE to MaxGrowth list calls in a row finds the loop stopped, not
\* waiting with a buffer doubled once more.
C16_ListRetriesBounded ==
    LET lc == CallsOf(ListFns)
    IN  ~(/\ pc = "list"
          /\ Len(lc) = MaxGrowth + 1
          /\ \A i \in 2..Len(lc) : IsErange(lc[i])
          /\ list_size = lc[1].res * Pow2(MaxGrowth)
          /\ "list" \in heap)

\* C17 as claimed: the label query of a path-based call treats a final
\* symlink as its stat call and its xattr calls do: getfilecon_raw goes with
\* stat, listxattr and getxattr (follow_symlinks true), lgetfilecon_raw with
\* lstat, llistxattr and lgetxattr (follow_symlinks false).
C17_LabelQueryFollowsLikeStat ==
    \A i \in 1..Len(calls) :
        calls[i].fn \in {"getfilecon_raw", "lgetfilecon_raw"}
        => /\ (calls[i].fn = "getfilecon_raw") = follow_symlinks
           /\ (calls[i].fn = "getfilecon_raw") = (calls[1].fn = "stat")
           /\ \A j \in 1..Len(calls) :
                 calls[j].fn \in ListFns \cup GetFns
                 => (calls[i].fn = "getfilecon_raw")
                      = (calls[j].fn \in {"listxattr", "getxattr"})

\* the step of g_file_info_simple_get a system call belongs to
CallRank(fn) ==
    IF fn \in {"stat", "lstat"} THEN 1
    ELSE IF fn = "readlink" THEN 2
    ELSE IF fn \in {"getfilecon_raw", "lgetfilecon_raw"} THEN 3
    ELSE IF fn \in ListFns \cup GetFns THEN 4
    ELSE 0

\* C18: a run of g_file_info_simple_get that leaves the fast path issues its
\* system calls in the order stat or lstat (one, first), readlink calls (only
\* with the symlink-target flag), the label query (at most one), then the
\* xattr list and get calls; the flags access-rights, display-name,
\* edit-name, mime-type and icon cause no call, no field of the bag and no
\* error: with nothing else requested the run is the one stat call.
C18_FixedCallOrder ==
    entry = "path"
    => /\ \A i \in 1..Len(calls) :
             /\ CallRank(calls[i].fn) > 0
             /\ (CallRank(calls[i].fn) = 1) = (i = 1)
       /\ \A i, j \in 1..Len(calls) :
             i < j => CallRank(calls[i].fn) <= CallRank(calls[j].fn)
       /\ Len(CallsOf({"getfilecon_raw", "lgetfilecon_raw"})) <= 1
       /\ CallsOf({"readlink"}) # <<>> => "SYMLINK_TARGET" \in requested
       /\ CallsOf({"getfilecon_raw", "lgetfilecon_raw"}) # <<>>
          => g_file_attribute_matcher_matches(attribute_matcher)
       /\ CallsOf(ListFns \cup GetFns) # <<>> => WantsXattrs(attribute_matcher)
       /\ (pc \notin {"start", "stat"} /\ ~TrivialCase(requested, attribute_matcher))
          => calls # <<>>
       /\ info.keys \subseteq
             {k \in {"name", "is_hidden", "symlink_target", "selinux:context"} :
                 \/ k = "name" /\ "NAME" \in requested
                 \/ k = "is_hidden" /\ "IS_HIDDEN" \in requested
                 \/ k = "symlink_target" /\ "SYMLINK_TARGET" \in requested
                 \/ k = "selinux:context"
                    /\ g_file_attribute_matcher_matches(attribute_matcher)}
       /\ info.stat \cap PlaceholderFlags = {}
       /\ error # "none" => (Len(calls) = 1 /\ calls[1].res = -1)
       /\ (pc = "done" /\ requested \subseteq PlaceholderFlags \cup {"NAME", "IS_HIDDEN"}
             /\ ~WantsXattrs(attribute_matcher)
             /\ ~g_file_attribute_matcher_matches(attribute_matcher))
          => /\ Len(calls) <= 1
             /\ info.keys \subseteq {"name", "is_hidden"}
             /\ info.xattr = {} /\ info.stat = {}
             /\ calls # <<>> => (error = "none") = (calls[1].res = 0)

C18_Witness ==
    /\ entry = "path" /\ pc = "done" /\ ret = "info" /\ error = "none"
    /\ requested = PlaceholderFlags \cup {"SYMLINK_TARGET"}
    /\ Len(calls) = 9
    /\ calls[1].fn = "stat"
    /\ calls[2].fn = "readlink" /\ calls[3].fn = "readlink"
    /\ calls[4].fn = "lgetfilecon_raw"
    /\ calls[5].fn = "listxattr" /\ calls[6].fn = "listxattr"
    /\ \A i \in 7..9 : calls[i].fn = "getxattr"
    /\ info.keys = {"symlink_target", "selinux:context"}
    /\ Stored(NameA)

\* C19 as claimed: when the call returns, every buffer the collectors
\* allocated is freed: read_link's buffer, get_one_xattr's heap value, and
\* the name list of get_xattrs, whether the list call into it succeeded, was
\* retried after ERANGE, or failed with another error.
C19_BuffersFreedAtReturn ==
    pc = "done" => heap \cap {"buffer", "list", "value_p"} = {}

\* C20 as claimed: whatever the calls answer and however the attribute
\* changes meanwhile, every terminator is written inside its buffer: at an
\* index of at most 63 in the stack buffer of get_one_xattr, of at most the
\* probed length in its heap buffer, and below the buffer size in read_link.
C20_TerminatorInsideBuffer ==
    /\ term.idx >= 0 /\ term.idx < term.cap
    /\ term.cap = StackValueSize => term.idx <= StackValueSize - 1
====
